---- MODULE Spec2Model ----
(***************************************************************************)
(* A model of last_time_us.py: the task store kept in tasks.json and the   *)
(* streak accounting of mark_task_completed.                               *)
(*                                                                         *)
(* A datetime is a tick number, TicksPerDay ticks to a calendar day; a     *)
(* date is a day number.  Every handler loads the whole file, changes the  *)
(* loaded mapping and writes the whole file back, as the code does.        *)
(***************************************************************************)
EXTENDS Integers, Sequences, FiniteSets, TLC

\* ---------------------------------------------------------------- bounds
NumDays == 4
TicksPerDay == 2
MaxCompletions == 3
MaxGrace == 1
MaxStreak == 3

\* Python's None for an optional datetime, date (ticks and days are >= 0).
None == -1

Days == 0 .. (NumDays - 1)
Times == 0 .. (NumDays * TicksPerDay - 1)
TaskNames == {"a"}
Tracked == "a"
\* The names of the two-task store.
Names == {"a", "b"}

\* now.date()
date(now) == now \div TicksPerDay

VARIABLES
    data_file,   \* the content of DATA_FILE (tasks.json)
    GRACE_DAYS,  \* the configured grace period
    printed,     \* what the last handler printed
    wrote,       \* whether the last handler wrote DATA_FILE
    events,      \* history: per task, the completions applied and the last one's now
    hist,        \* history: the calendar days of the tracked task's completions, in call order
    ordered,     \* history: the tracked task's completions had non-decreasing timestamps
    call         \* history: the last handler call, with the record it loaded for its task

vars == <<data_file, GRACE_DAYS, printed, wrote, events, hist, ordered, call>>

\* ------------------------------------------------------- the JSON values
JNull == [j |-> "null"]
JAbsent == [j |-> "absent"]
JNumber(v) == [j |-> "number", v |-> v]
JString(fmt, v) == [j |-> "string", fmt |-> fmt, v |-> v]
\* json.load reads Infinity, -Infinity and NaN as floats.
JInfinity == [j |-> "infinity"]
JNaN == [j |-> "nan"]

\* Variant that writes a datetime as its date.
datetime_isoformat_dateonly(dt) == JString("date", dt \div TicksPerDay)

\* datetime.isoformat(), date.isoformat()
datetime_isoformat(dt) == JString("datetime", dt)
date_isoformat(d) == JString("date", d)

\* Python truthiness of a JSON value, as in `if data.get(key):`
Truthy(x) ==
    \/ x.j = "string" /\ x.fmt # "empty"
    \/ x.j = "number" /\ x.v # 0
    \/ x.j \in {"infinity", "nan"}

\* datetime.datetime.fromisoformat under `except (ValueError, TypeError)`: None on failure.
\* A date-only text parses to that day's midnight.
datetime_fromisoformat(x) ==
    IF x.j = "string" /\ x.fmt = "datetime" THEN x.v
    ELSE IF x.j = "string" /\ x.fmt = "date" THEN x.v * TicksPerDay
    ELSE None

\* datetime.date.fromisoformat under `except (ValueError, TypeError)`: None on failure.
date_fromisoformat(x) ==
    IF x.j = "string" /\ x.fmt = "date" THEN x.v ELSE None

\* int(float('inf')) raises OverflowError, which `except (ValueError, TypeError)` does
\* not name: the exception leaves load_tasks.
int_raises(x) == x.j = "infinity"

\* int(data.get(key, 0)) under `except (ValueError, TypeError)`: 0 on failure.
int_or_zero(x) ==
    IF x.j = "number" THEN x.v
    ELSE IF x.j = "string" /\ x.fmt = "digits" THEN x.v
    ELSE 0

\* One pass of load_tasks' loop body over a raw record.
load_record(data) ==
    [creation_timestamp |->
        IF Truthy(data.creation_timestamp)
        THEN datetime_fromisoformat(data.creation_timestamp) ELSE None,
     last_completed_timestamp |->
        IF Truthy(data.last_completed_timestamp)
        THEN datetime_fromisoformat(data.last_completed_timestamp) ELSE None,
     streak_last_updated_date |->
        IF Truthy(data.streak_last_updated_date)
        THEN date_fromisoformat(data.streak_last_updated_date) ELSE None,
     current_streak |-> int_or_zero(data.current_streak),
     total_completions |-> int_or_zero(data.total_completions)]

\* The kinds of content of DATA_FILE: a JSON object of task objects ("json"), no file
\* ("missing"), a file of zero bytes ("empty"), text that is no JSON ("garbled"), bytes
\* that are no text in the file's encoding ("undecodable": f.read() raises
\* UnicodeDecodeError), a file open() cannot read ("unreadable": OSError) and JSON
\* text that is no object ("notobject": tasks_raw.items() raises AttributeError).
\* load_tasks() ends with an exception no except clause names.
load_aborts(f) ==
    \/ f.kind \in {"undecodable", "unreadable", "notobject"}
    \/ /\ f.kind = "json"
       /\ \E task_name \in DOMAIN f.tasks :
             \/ int_raises(f.tasks[task_name].current_streak)
             \/ int_raises(f.tasks[task_name].total_completions)

\* load_tasks(): {} for a missing or empty file and for text that is no JSON.  Where
\* load_aborts holds nothing is returned, and <<>> stands for that.
load_tasks(f) ==
    IF f.kind # "json" \/ load_aborts(f) THEN <<>>
    ELSE [task_name \in DOMAIN f.tasks |-> load_record(f.tasks[task_name])]

\* One pass of save_tasks' loop body: datetimes and dates to ISO text, None to null.
save_record(data) ==
    [creation_timestamp |->
        IF data.creation_timestamp # None
        THEN datetime_isoformat(data.creation_timestamp) ELSE JNull,
     last_completed_timestamp |->
        IF data.last_completed_timestamp # None
        THEN datetime_isoformat(data.last_completed_timestamp) ELSE JNull,
     streak_last_updated_date |->
        IF data.streak_last_updated_date # None
        THEN date_isoformat(data.streak_last_updated_date) ELSE JNull,
     current_streak |-> JNumber(data.current_streak),
     total_completions |-> JNumber(data.total_completions)]

\* save_tasks(tasks): the file written.
save_tasks(tasks) ==
    [kind |-> "json",
     tasks |-> [task_name \in DOMAIN tasks |-> save_record(tasks[task_name])]]

\* The task records every handler sees first.
tasks == load_tasks(data_file)

\* ------------------------------------------------------------- add_task
\* The record add_task inserts.
new_task(current_time) ==
    [creation_timestamp |-> current_time,
     last_completed_timestamp |-> None,
     current_streak |-> 0,
     streak_last_updated_date |-> None,
     total_completions |-> 0]

Message(msg, task_name, at) == [msg |-> msg, task |-> task_name, at |-> at]

\* A handler whose load_tasks() raised: the traceback is printed, nothing is written.
Aborted ==
    /\ printed' = Message("Traceback", "", None)
    /\ wrote' = FALSE
    /\ UNCHANGED data_file

\* Variant that inserts without looking for the name.
add_task_overwrite(task_name, now) ==
    /\ IF load_aborts(data_file) THEN Aborted
       ELSE /\ data_file' = save_tasks((task_name :> new_task(now)) @@ tasks)
            /\ wrote' = TRUE
            /\ printed' = Message("Added", task_name, None)
    /\ UNCHANGED GRACE_DAYS

add_task(task_name, now) ==
    /\ IF load_aborts(data_file) THEN Aborted
       ELSE IF task_name \in DOMAIN tasks
       THEN /\ printed' = Message("Exists", task_name, None)
            /\ wrote' = FALSE
            /\ UNCHANGED data_file
       ELSE /\ data_file' = save_tasks(tasks @@ (task_name :> new_task(now)))
            /\ wrote' = TRUE
            /\ printed' = Message("Added", task_name, None)
    /\ UNCHANGED GRACE_DAYS

\* -------------------------------------------------- mark_task_completed
\* Variants of the grace test with the bound off by one.
within_grace_short(days_difference, g) ==
    1 < days_difference /\ days_difference <= g

within_grace_strict(days_difference, g) ==
    1 < days_difference /\ days_difference < g + 1

within_grace_wide(days_difference, g) ==
    1 < days_difference /\ days_difference <= g + 2

\* `1 < days_difference <= (GRACE_DAYS + 1)`
within_grace(days_difference, g) ==
    1 < days_difference /\ days_difference <= g + 1

\* Variant that reports a first completion as a restart.
streak_outcome_restart(last_streak_update_date, today, g) ==
    IF last_streak_update_date = today THEN "AlreadyCountedToday"
    ELSE IF last_streak_update_date # None /\ today - last_streak_update_date = 1
    THEN "Continued"
    ELSE IF last_streak_update_date # None
            /\ 1 < today - last_streak_update_date
            /\ today - last_streak_update_date <= g + 1
    THEN "ContinuedWithGrace"
    ELSE "Restarted"

\* Variant that takes the distance between the two days for their difference.
streak_outcome_distance(last_streak_update_date, today, g) ==
    LET days_difference ==
            IF today >= last_streak_update_date THEN today - last_streak_update_date
            ELSE last_streak_update_date - today
    IN  IF last_streak_update_date = today THEN "AlreadyCountedToday"
        ELSE IF last_streak_update_date = None THEN "Started"
        ELSE IF days_difference = 1 THEN "Continued"
        ELSE IF 1 < days_difference /\ days_difference <= g + 1
        THEN "ContinuedWithGrace"
        ELSE "Restarted"

\* Which branch the streak logic takes.  An unset date gives float('inf'), which is
\* neither 1 nor within the grace period.
streak_outcome(last_streak_update_date, today, g) ==
    IF last_streak_update_date = today THEN "AlreadyCountedToday"
    ELSE IF last_streak_update_date = None THEN "Started"
    ELSE IF today - last_streak_update_date = 1 THEN "Continued"
    ELSE IF within_grace(today - last_streak_update_date, g) THEN "ContinuedWithGrace"
    ELSE "Restarted"

\* Variant that counts a second completion of the day again.
streak_after_recount(outcome, current_streak) ==
    IF outcome \in {"AlreadyCountedToday", "Continued", "ContinuedWithGrace"}
    THEN current_streak + 1
    ELSE 1

\* Variant that forgives the missed day but does not count the completion.
streak_after_grace_kept(outcome, current_streak) ==
    IF outcome \in {"AlreadyCountedToday", "ContinuedWithGrace"} THEN current_streak
    ELSE IF outcome = "Continued" THEN current_streak + 1
    ELSE 1

\* Variant in which a streak that starts or restarts is at 0.
streak_after_from_zero(outcome, current_streak) ==
    IF outcome = "AlreadyCountedToday" THEN current_streak
    ELSE IF outcome \in {"Continued", "ContinuedWithGrace"} THEN current_streak + 1
    ELSE 0

\* task_data["current_streak"] after the branch.
streak_after(outcome, current_streak) ==
    IF outcome = "AlreadyCountedToday" THEN current_streak
    ELSE IF outcome \in {"Continued", "ContinuedWithGrace"} THEN current_streak + 1
    ELSE 1

\* Variant that sets the date only where the streak continues.
streak_date_after_continued(outcome, last_streak_update_date, today) ==
    IF outcome \in {"Continued", "ContinuedWithGrace"} THEN today
    ELSE last_streak_update_date

\* Variant that never moves the date back.
streak_date_after_latest(outcome, last_streak_update_date, today) ==
    IF outcome = "AlreadyCountedToday" \/ last_streak_update_date > today
    THEN last_streak_update_date
    ELSE today

\* task_data["streak_last_updated_date"] after the branch.
streak_date_after(outcome, last_streak_update_date, today) ==
    IF outcome = "AlreadyCountedToday" THEN last_streak_update_date ELSE today

\* Variant that loses the increment.
completions_after_kept(total_completions) == total_completions

\* task_data["total_completions"] after the call.
completions_after(total_completions) == total_completions + 1

\* Variant that stamps the time only where the streak is touched.
timestamp_after_streak_only(outcome, last_completed_timestamp, now) ==
    IF outcome = "AlreadyCountedToday" THEN last_completed_timestamp ELSE now

\* task_data["last_completed_timestamp"] after the call.
timestamp_after(outcome, last_completed_timestamp, now) == now

\* Variant that stamps the creation time as well.
complete_task_stamped(task_data, now, g) ==
    LET today == date(now)
        outcome == streak_outcome(task_data.streak_last_updated_date, today, g)
    IN  [task_data EXCEPT
            !.creation_timestamp = now,
            !.current_streak = streak_after(outcome, @),
            !.streak_last_updated_date = streak_date_after(outcome, @, today),
            !.total_completions = completions_after(@),
            !.last_completed_timestamp = timestamp_after(outcome, @, now)]

\* The in-place update of task_data.  The type repairs at the head of the handler
\* change nothing here: load_tasks already left an int streak and a date or None.
complete_task(task_data, now, g) ==
    LET today == date(now)
        last_streak_update_date == task_data.streak_last_updated_date
        outcome == streak_outcome(last_streak_update_date, today, g)
    IN  [task_data EXCEPT
            !.current_streak = streak_after(outcome, @),
            !.streak_last_updated_date = streak_date_after(outcome, @, today),
            !.total_completions = completions_after(@),
            !.last_completed_timestamp = timestamp_after(outcome, @, now)]

\* Variant that completes a task it does not find as a new one.
mark_task_completed_anyway(task_name, now) ==
    LET task_data == IF task_name \in DOMAIN tasks THEN tasks[task_name]
                     ELSE new_task(now)
    IN  /\ IF load_aborts(data_file) THEN Aborted
           ELSE /\ data_file' = save_tasks(
                        (task_name :> complete_task(task_data, now, GRACE_DAYS)) @@ tasks)
                /\ wrote' = TRUE
                /\ printed' = Message(
                        streak_outcome(task_data.streak_last_updated_date,
                                       date(now), GRACE_DAYS),
                        task_name, now)
        /\ UNCHANGED GRACE_DAYS

\* Variant that writes back the completed task alone.
mark_task_completed_alone(task_name, now) ==
    /\ IF load_aborts(data_file) THEN Aborted
       ELSE IF task_name \notin DOMAIN tasks
       THEN /\ printed' = Message("NotFound", task_name, None)
            /\ wrote' = FALSE
            /\ UNCHANGED data_file
       ELSE /\ data_file' = save_tasks(
                    task_name :> complete_task(tasks[task_name], now, GRACE_DAYS))
            /\ wrote' = TRUE
            /\ printed' = Message(
                    streak_outcome(tasks[task_name].streak_last_updated_date,
                                   date(now), GRACE_DAYS),
                    task_name, now)
    /\ UNCHANGED GRACE_DAYS

mark_task_completed(task_name, now) ==
    /\ IF load_aborts(data_file) THEN Aborted
       ELSE IF task_name \notin DOMAIN tasks
       THEN /\ printed' = Message("NotFound", task_name, None)
            /\ wrote' = FALSE
            /\ UNCHANGED data_file
       ELSE /\ data_file' = save_tasks(
                    [tasks EXCEPT ![task_name] = complete_task(@, now, GRACE_DAYS)])
            /\ wrote' = TRUE
            /\ printed' = Message(
                    streak_outcome(tasks[task_name].streak_last_updated_date,
                                   date(now), GRACE_DAYS),
                    task_name, now)
    /\ UNCHANGED GRACE_DAYS

\* ----------------------------------------------------------- time_since
\* time_since works in seconds: a timedelta is days and the seconds left over.
SecondsPerMinute == 60
SecondsPerHour == 3600
SecondsPerDay == 86400

\* One entry of parts: the number and whether the unit is written in the plural.
Part(n, unit) == [n |-> n, unit |-> unit, plural |-> n # 1]

\* time_since(dt_object) called when datetime.datetime.now() is now.
time_since(dt_object, now) ==
    IF dt_object = None THEN [text |-> "Nunca", parts |-> <<>>]
    ELSE IF now - dt_object < 0 THEN [text |-> "En el futuro", parts |-> <<>>]
    ELSE
        LET delta == now - dt_object
            days == delta \div SecondsPerDay
            seconds_in_day_remainder == delta % SecondsPerDay
            hours == seconds_in_day_remainder \div SecondsPerHour
            remainder_after_hours == seconds_in_day_remainder % SecondsPerHour
            minutes == remainder_after_hours \div SecondsPerMinute
            seconds == remainder_after_hours % SecondsPerMinute
            larger ==
                (IF days > 0 THEN <<Part(days, "dia")>> ELSE <<>>)
                \o (IF hours > 0 THEN <<Part(hours, "hora")>> ELSE <<>>)
                \o (IF minutes > 0 THEN <<Part(minutes, "minuto")>> ELSE <<>>)
            parts ==
                IF larger = <<>> /\ seconds >= 0
                THEN <<Part(seconds, "segundo")>>
                ELSE IF larger # <<>> /\ seconds > 0
                THEN larger \o <<Part(seconds, "segundo")>>
                ELSE larger
        IN  IF parts = <<>> THEN [text |-> "Justo ahora", parts |-> <<>>]
            ELSE [text |-> "hace", parts |-> parts]

\* ------------------------------------------- list_tasks, display_statistics
\* Variant that writes the loaded tasks back.
list_tasks_saving ==
    /\ IF load_aborts(data_file) THEN Aborted
       ELSE /\ printed' = Message("NoTasks", "", None)
            /\ wrote' = TRUE
            /\ data_file' = save_tasks(tasks)
    /\ UNCHANGED GRACE_DAYS

\* What list_tasks prints of the tasks (the elapsed-time texts are left out).
list_tasks ==
    /\ IF load_aborts(data_file) THEN Aborted
       ELSE /\ printed' =
                 IF DOMAIN tasks = {} THEN Message("NoTasks", "", None)
                 ELSE [msg |-> "Tasks", task |-> "", at |-> None,
                       lines |-> [task_name \in DOMAIN tasks |->
                           [last_completed_timestamp |->
                                tasks[task_name].last_completed_timestamp,
                            current_streak |-> tasks[task_name].current_streak,
                            total_completions |-> tasks[task_name].total_completions]]]
            /\ wrote' = FALSE
            /\ UNCHANGED data_file
    /\ UNCHANGED GRACE_DAYS

\* The counters of display_statistics before its loop.
stats_start(total_tasks) ==
    [total_tasks |-> total_tasks,
     active_streak_tasks_count |-> 0,
     highest_streak_value |-> 0,
     tasks_with_highest_streak |-> <<>>,
     total_completions_all_tasks |-> 0,
     max_completions_count |-> 0,
     tasks_with_max_completions |-> <<>>]

\* Variant in which a tie replaces the names found so far.
stats_step_last_tie(acc, task_name, data) ==
    [acc EXCEPT
        !.active_streak_tasks_count = IF data.current_streak > 0 THEN @ + 1 ELSE @,
        !.highest_streak_value =
            IF data.current_streak > @ THEN data.current_streak ELSE @,
        !.tasks_with_highest_streak =
            IF data.current_streak >= acc.highest_streak_value /\ data.current_streak > 0
            THEN <<task_name>> ELSE @,
        !.total_completions_all_tasks = @ + data.total_completions,
        !.max_completions_count =
            IF data.total_completions > @ THEN data.total_completions ELSE @,
        !.tasks_with_max_completions =
            IF data.total_completions >= acc.max_completions_count
               /\ data.total_completions > 0
            THEN <<task_name>> ELSE @]

\* One pass of the loop of display_statistics.
stats_step(acc, task_name, data) ==
    LET current_streak == data.current_streak
        task_total_completions == data.total_completions
    IN  [acc EXCEPT
            !.active_streak_tasks_count = IF current_streak > 0 THEN @ + 1 ELSE @,
            !.highest_streak_value =
                IF current_streak > @ THEN current_streak ELSE @,
            !.tasks_with_highest_streak =
                IF current_streak > acc.highest_streak_value THEN <<task_name>>
                ELSE IF current_streak = acc.highest_streak_value /\ current_streak > 0
                THEN Append(@, task_name)
                ELSE @,
            !.total_completions_all_tasks = @ + task_total_completions,
            !.max_completions_count =
                IF task_total_completions > @ THEN task_total_completions ELSE @,
            !.tasks_with_max_completions =
                IF task_total_completions > acc.max_completions_count
                THEN <<task_name>>
                ELSE IF task_total_completions = acc.max_completions_count
                        /\ task_total_completions > 0
                THEN Append(@, task_name)
                ELSE @]

\* The loop over tasks.items(), order being the order of the keys.
RECURSIVE stats_loop(_, _, _)
stats_loop(all, order, acc) ==
    IF order = <<>> THEN acc
    ELSE stats_loop(all, Tail(order), stats_step(acc, Head(order), all[Head(order)]))

display_statistics(order) ==
    /\ IF load_aborts(data_file) THEN Aborted
       ELSE /\ printed' =
                 IF DOMAIN tasks = {} THEN Message("NoTasks", "", None)
                 ELSE [msg |-> "Statistics", task |-> "", at |-> None,
                       stats |-> stats_loop(tasks, order,
                                            stats_start(Cardinality(DOMAIN tasks)))]
            /\ wrote' = FALSE
            /\ UNCHANGED data_file
    /\ UNCHANGED GRACE_DAYS

\* The orders in which a dict can hold the keys S.
KeyOrders(S) ==
    {order \in [1 .. Cardinality(S) -> S] :
        \A i, k \in 1 .. Cardinality(S) : i # k => order[i] # order[k]}

\* ------------------------------------------------------------ histories
NoEvents == [task_name \in Names |-> [n |-> 0, at |-> None]]

\* The call just made: found says whether the task was in the store, task_data is the
\* record loaded for it, now is the datetime.now() it read (add_task reads the clock
\* only for a new task, mark_task_completed only for a task it found).
Call(op, task_name, now) ==
    [op |-> op, task |-> task_name,
     now |-> IF (op = "add_task") = (task_name \in DOMAIN tasks) THEN None ELSE now,
     found |-> task_name \in DOMAIN tasks,
     task_data |-> IF task_name \in DOMAIN tasks THEN tasks[task_name] ELSE new_task(None)]

NoCall == [op |-> "none", task |-> "", now |-> None, found |-> FALSE,
           task_data |-> new_task(None)]

\* What a call of mark_task_completed adds to the histories.
Observe(task_name, now) ==
    /\ call' = Call("mark_task_completed", task_name, now)
    /\ IF task_name \in DOMAIN tasks
       THEN /\ events' = [events EXCEPT ![task_name] = [n |-> @.n + 1, at |-> now]]
            /\ hist' = IF task_name = Tracked THEN Append(hist, date(now)) ELSE hist
            /\ ordered' = IF task_name = Tracked
                           THEN ordered /\ events[task_name].at <= now
                           ELSE ordered
       ELSE UNCHANGED <<events, hist, ordered>>

\* ------------------------------------------------------- specifications
AddTask(times) ==
    \E task_name \in TaskNames, now \in times :
        /\ add_task(task_name, now)
        /\ call' = Call("add_task", task_name, now)
        /\ UNCHANGED <<events, hist, ordered>>

MarkCompleted(times, cap) ==
    \E task_name \in TaskNames, now \in times :
        /\ events[task_name].n < cap
        /\ mark_task_completed(task_name, now)
        /\ Observe(task_name, now)

\* main_cli creates an empty tasks.json when there is none.
Init ==
    /\ data_file = save_tasks(<<>>)
    /\ GRACE_DAYS \in 0 .. MaxGrace
    /\ printed = Message("Menu", "", None)
    /\ wrote = FALSE
    /\ events = NoEvents
    /\ hist = <<>>
    /\ ordered = TRUE
    /\ call = NoCall

\* Tasks are added during the first day; completions come at any time, in any order.
Next == AddTask(0 .. (TicksPerDay - 1)) \/ MarkCompleted(Times, MaxCompletions)

Spec == Init /\ [][Next]_vars

\* The streak logic applied once to any well-typed record.
EngineRecords ==
    [creation_timestamp : {None, 0},
     last_completed_timestamp : {None} \cup Times,
     current_streak : 0 .. MaxStreak,
     streak_last_updated_date : {None} \cup Days,
     total_completions : 0 .. MaxCompletions]

InitEngine ==
    /\ \E task_data \in EngineRecords : data_file = save_tasks(Tracked :> task_data)
    /\ GRACE_DAYS \in 0 .. MaxGrace
    /\ printed = Message("Menu", "", None)
    /\ wrote = FALSE
    /\ events = NoEvents
    /\ hist = <<>>
    /\ ordered = TRUE
    /\ call = NoCall

NextEngine == MarkCompleted(Times, 1)

SpecEngine == InitEngine /\ [][NextEngine]_vars

\* The days of the worked scenario, and the grace period it is stated for.
ScenarioDays == <<1, 2, 2, 4, 8>>
ScenarioGrace == 1
ScenarioTimes ==
    {ScenarioDays[k] * TicksPerDay + tick :
        k \in 1 .. Len(ScenarioDays), tick \in 0 .. (TicksPerDay - 1)}

InitScenario == Init /\ GRACE_DAYS = ScenarioGrace

NextScenario ==
    AddTask(0 .. (TicksPerDay - 1)) \/ MarkCompleted(ScenarioTimes, Len(ScenarioDays))

SpecScenario == InitScenario /\ [][NextScenario]_vars

\* The store of two tasks under the grace period the program is shipped with.
StoreDays == 2
StoreCompletions == 2
StoreTimes == 0 .. (StoreDays * TicksPerDay - 1)

\* Tasks are added at the first or the last tick of the first day.
StoreAddTimes == {0, TicksPerDay - 1}

StoreAdd ==
    \E task_name \in Names, now \in StoreAddTimes :
        /\ add_task(task_name, now)
        /\ call' = Call("add_task", task_name, now)
        /\ UNCHANGED <<events, hist, ordered>>

StoreMark ==
    \E task_name \in Names, now \in StoreTimes :
        /\ events["a"].n + events["b"].n < StoreCompletions
        /\ mark_task_completed(task_name, now)
        /\ Observe(task_name, now)

ListTasks ==
    /\ list_tasks
    /\ call' = Call("list_tasks", "", None)
    /\ UNCHANGED <<events, hist, ordered>>

ShowStatistics ==
    \E order \in KeyOrders(DOMAIN tasks) :
        /\ display_statistics(order)
        /\ call' = Call("display_statistics", "", None)
        /\ UNCHANGED <<events, hist, ordered>>

InitStore == Init /\ GRACE_DAYS = ScenarioGrace

NextStore == StoreAdd \/ StoreMark \/ ListTasks \/ ShowStatistics

SpecStore == InitStore /\ [][NextStore]_vars

\* Any content of tasks.json the program may find when it starts: the record of "a"
\* holds, field by field, any of the raw values of its kind; the record of "b" is one the program
\* wrote.  One handler is run on it.
RawTexts ==
    {JAbsent, JNull, JNumber(1), JInfinity, JString("datetime", 1), JString("date", 1),
     JString("junk", 0)}

RawCounters ==
    {JAbsent, JNull, JNumber(1), JInfinity, JNaN, JString("junk", 0)}

RawRecords ==
    [creation_timestamp : RawTexts,
     last_completed_timestamp : RawTexts,
     streak_last_updated_date : RawTexts,
     current_streak : RawCounters,
     total_completions : RawCounters]

FileKinds == {"missing", "empty", "garbled", "undecodable", "unreadable", "notobject"}

RawFile(data) ==
    [kind |-> "json", tasks |-> ("a" :> data) @@ ("b" :> save_record(new_task(0)))]

InitFile ==
    /\ \/ \E data \in RawRecords : data_file = RawFile(data)
       \/ \E kind \in FileKinds : data_file = [kind |-> kind]
    /\ GRACE_DAYS = ScenarioGrace
    /\ printed = Message("Menu", "", None)
    /\ wrote = FALSE
    /\ events = NoEvents
    /\ hist = <<>>
    /\ ordered = TRUE
    /\ call = NoCall

NextFile == call = NoCall /\ NextStore

SpecFile == InitFile /\ [][NextFile]_vars

\* save_tasks(m) for any mapping m of well-typed records, then load_tasks().
SavedRecords ==
    [creation_timestamp : {None} \cup Times,
     last_completed_timestamp : {None} \cup Times,
     current_streak : 0 .. MaxStreak,
     streak_last_updated_date : {None} \cup Days,
     total_completions : 0 .. MaxCompletions]

SavedOthers == {<<>>, "b" :> new_task(0)}

SaveTasks ==
    /\ call = NoCall
    /\ \E data \in SavedRecords, others \in SavedOthers :
          LET m == ("a" :> data) @@ others
          IN  /\ data_file' = save_tasks(m)
              /\ wrote' = TRUE
              /\ call' = [op |-> "save_tasks", task |-> "", now |-> None,
                          found |-> FALSE, task_data |-> new_task(None), tasks |-> m]
              /\ UNCHANGED <<GRACE_DAYS, printed, events, hist, ordered>>

LoadTasks ==
    /\ call.op = "save_tasks"
    /\ printed' = [msg |-> "Loaded", task |-> "", at |-> None, tasks |-> tasks]
    /\ wrote' = FALSE
    /\ call' = [call EXCEPT !.op = "load_tasks"]
    /\ UNCHANGED <<data_file, GRACE_DAYS, events, hist, ordered>>

NextRoundTrip == SaveTasks \/ LoadTasks

SpecRoundTrip == InitStore /\ [][NextRoundTrip]_vars

\* time_since(dt_object) for any dt_object, None included, at any now; the datetimes
\* are up to MaxUnit days, hours, minutes and seconds after the first.
MaxUnit == 2
SinceTimes ==
    {d * SecondsPerDay + h * SecondsPerHour + m * SecondsPerMinute + sec :
        d \in 0 .. MaxUnit, h \in 0 .. MaxUnit, m \in 0 .. MaxUnit, sec \in 0 .. MaxUnit}

TimeSince ==
    /\ call = NoCall
    /\ \E dt_object \in {None} \cup SinceTimes, now \in SinceTimes :
          /\ printed' = [msg |-> "time_since", task |-> "", at |-> None,
                         text |-> time_since(dt_object, now)]
          /\ call' = [op |-> "time_since", task |-> "", now |-> now, found |-> FALSE,
                      task_data |-> new_task(None), dt_object |-> dt_object]
    /\ wrote' = FALSE
    /\ UNCHANGED <<data_file, GRACE_DAYS, events, hist, ordered>>

NextSince == TimeSince

SpecSince == InitStore /\ [][NextSince]_vars

\* ---------------------------------------------------------------- claims
\* The last call was a mark_task_completed that found its task; Before is the record
\* it loaded, After the record now stored, Today the date of its now.
Completed == call.op = "mark_task_completed" /\ call.found
Before == call.task_data
After == tasks[call.task]
Today == date(call.now)
Gap == Today - Before.streak_last_updated_date

\* C1: with the reference date set to D, a completion gap >= 1 days after D continues
\* the streak (+1, Continued) when gap = 1, continues it with grace (+1,
\* ContinuedWithGrace) when 1 < gap <= GRACE_DAYS + 1, and restarts it at 1 (Restarted)
\* when gap > GRACE_DAYS + 1, for every grace period.
C1_GapDecidesStreak ==
    (Completed /\ Before.streak_last_updated_date # None /\ Gap >= 1) =>
        /\ Gap = 1 =>
              /\ After.current_streak = Before.current_streak + 1
              /\ printed.msg = "Continued"
        /\ (1 < Gap /\ Gap <= GRACE_DAYS + 1) =>
              /\ After.current_streak = Before.current_streak + 1
              /\ printed.msg = "ContinuedWithGrace"
        /\ Gap > GRACE_DAYS + 1 =>
              /\ After.current_streak = 1
              /\ printed.msg = "Restarted"

C1_Witness ==
    /\ Completed
    /\ GRACE_DAYS = 1
    /\ Before.streak_last_updated_date # None
    /\ Gap = 2
    /\ Before.current_streak = 2
    /\ After.current_streak = 3
    /\ printed.msg = "ContinuedWithGrace"

\* C2: a completion on the day the reference date already names is reported as
\* AlreadyCountedToday, leaves the streak and the reference date alone, and still adds
\* exactly one to total_completions.
C2_SameDayKeepsStreak ==
    (Completed /\ Before.streak_last_updated_date = Today) =>
        /\ printed.msg = "AlreadyCountedToday"
        /\ After.current_streak = Before.current_streak
        /\ After.streak_last_updated_date = Before.streak_last_updated_date
        /\ After.total_completions = Before.total_completions + 1

C2_Witness ==
    /\ Completed
    /\ Before.streak_last_updated_date = Today
    /\ Before.current_streak = 1
    /\ Before.total_completions = 1
    /\ After.total_completions = 2
    /\ printed.msg = "AlreadyCountedToday"

\* C3: the first completion of a record with no reference date is reported as Started
\* (not Restarted), sets the streak to 1 and the reference date to today, for every
\* grace period.
C3_FirstCompletionStarts ==
    (Completed /\ Before.streak_last_updated_date = None) =>
        /\ printed.msg = "Started"
        /\ After.current_streak = 1
        /\ After.streak_last_updated_date = Today

C3_Witness ==
    /\ Completed
    /\ Before = new_task(Before.creation_timestamp)
    /\ GRACE_DAYS = 0
    /\ printed.msg = "Started"
    /\ After.current_streak = 1

\* C4: total_completions never decreases, and for a task created by add_task it is the
\* number of successful mark_task_completed calls applied to the task since then,
\* same-day repeats included.
C4_TotalCountsCompletions ==
    /\ \A task_name \in DOMAIN tasks :
          tasks[task_name].total_completions = events[task_name].n
    /\ (call.found /\ call.op # "none") =>
          After.total_completions >= Before.total_completions

C4_Witness ==
    /\ Completed
    /\ Len(hist) = MaxCompletions
    /\ \A i \in DOMAIN hist : hist[i] = hist[1]
    /\ After.total_completions = MaxCompletions
    /\ After.current_streak = 1

\* C5: in every state reached from the empty store by add_task and
\* mark_task_completed, a record has current_streak = 0 exactly when its reference
\* date is unset, and exactly when the task has never been completed.
C5_ZeroStreakIffNoDate ==
    \A task_name \in DOMAIN tasks :
        /\ tasks[task_name].current_streak = 0
              <=> tasks[task_name].streak_last_updated_date = None
        /\ tasks[task_name].current_streak = 0 <=> events[task_name].n = 0

C5_Witness ==
    /\ Completed
    /\ events[Tracked].n = 2
    /\ printed.msg = "Restarted"
    /\ After.current_streak = 1
    /\ After.streak_last_updated_date = Today

\* What the scenario expects after each of its completions.
ScenarioStreaks == <<1, 2, 2, 3, 1>>
ScenarioOutcomes ==
    <<"Started", "Continued", "AlreadyCountedToday", "ContinuedWithGrace", "Restarted">>

\* C6: with GRACE_DAYS = 1 a new task has streak 0, no reference date and total 0, and
\* completing it on days 1, 2, 2, 4, 8 gives in turn streak 1, 2, 2, 3, 1, the
\* reference date of that day, total 1..5 and the outcomes Started, Continued,
\* AlreadyCountedToday, ContinuedWithGrace, Restarted.
C6_Scenario ==
    \A k \in 0 .. Len(ScenarioDays) :
        (Tracked \in DOMAIN tasks /\ hist = SubSeq(ScenarioDays, 1, k)) =>
            IF k = 0
            THEN /\ tasks[Tracked].current_streak = 0
                 /\ tasks[Tracked].streak_last_updated_date = None
                 /\ tasks[Tracked].total_completions = 0
            ELSE /\ tasks[Tracked].current_streak = ScenarioStreaks[k]
                 /\ tasks[Tracked].streak_last_updated_date = ScenarioDays[k]
                 /\ tasks[Tracked].total_completions = k
                 /\ Completed => printed.msg = ScenarioOutcomes[k]

C6_Witness ==
    /\ Completed
    /\ GRACE_DAYS = ScenarioGrace
    /\ hist = ScenarioDays
    /\ printed.msg = "Restarted"
    /\ After.current_streak = 1
    /\ After.total_completions = Len(ScenarioDays)

\* The calendar days of a history, and the latest of a set of days.
DaysOf(h) == {h[i] : i \in DOMAIN h}
Latest(S) == CHOOSE d \in S : \A e \in S : e <= d

\* The days of the chain that ends at day d: each at most g + 1 days after the
\* completion day before it.
RECURSIVE ChainFrom(_, _, _)
ChainFrom(S, d, g) ==
    LET earlier == {e \in S : e < d}
    IN  IF earlier # {} /\ d - Latest(earlier) <= g + 1
        THEN 1 + ChainFrom(S, Latest(earlier), g)
        ELSE 1

ChainLength(S, g) == IF S = {} THEN 0 ELSE ChainFrom(S, Latest(S), g)

\* The consecutive calendar days ending at day d that all have a completion.
RECURSIVE RunFrom(_, _)
RunFrom(S, d) == IF d - 1 \in S THEN 1 + RunFrom(S, d - 1) ELSE 1

RunLength(S) == IF S = {} THEN 0 ELSE RunFrom(S, Latest(S))

\* C7: after completions with non-decreasing timestamps on a task created by
\* add_task, current_streak is the number of completion days in the most recent
\* chain of days each at most GRACE_DAYS + 1 after the one before; with
\* GRACE_DAYS = 0 that is the run of consecutive calendar days ending at the latest
\* completion day.
C7_StreakIsLatestChain ==
    (Tracked \in DOMAIN tasks /\ ordered) =>
        /\ tasks[Tracked].current_streak = ChainLength(DaysOf(hist), GRACE_DAYS)
        /\ GRACE_DAYS = 0 => tasks[Tracked].current_streak = RunLength(DaysOf(hist))

C7_Witness ==
    /\ Completed
    /\ ordered
    /\ GRACE_DAYS = 1
    /\ hist = <<0, 2, 3>>
    /\ After.current_streak = 3

\* C8: with GRACE_DAYS = 0 no completion is reported as ContinuedWithGrace, and the
\* streak is incremented only for a gap of 1, kept for a gap of 0 and set to 1
\* otherwise.
C8_NoGraceIsStrict ==
    (Completed /\ GRACE_DAYS = 0) =>
        /\ printed.msg # "ContinuedWithGrace"
        /\ After.current_streak =
              IF Before.streak_last_updated_date # None /\ Gap = 1
              THEN Before.current_streak + 1
              ELSE IF Before.streak_last_updated_date # None /\ Gap = 0
              THEN Before.current_streak
              ELSE 1

C8_Witness ==
    /\ Completed
    /\ GRACE_DAYS = 0
    /\ Before.streak_last_updated_date # None
    /\ Gap = 2
    /\ Before.current_streak = 2
    /\ After.current_streak = 1
    /\ printed.msg = "Restarted"

\* C9: after every successful mark_task_completed the record's
\* last_completed_timestamp is that call's now, whichever branch was taken, so a set
\* last_completed_timestamp is always the time of the task's most recent completion.
C9_LastCompletedIsLatestCall ==
    /\ Completed => After.last_completed_timestamp = call.now
    /\ \A task_name \in DOMAIN tasks :
          tasks[task_name].last_completed_timestamp = events[task_name].at

C9_Witness ==
    /\ Completed
    /\ printed.msg = "AlreadyCountedToday"
    /\ Before.last_completed_timestamp # None
    /\ Before.last_completed_timestamp # call.now
    /\ After.last_completed_timestamp = call.now

\* C10: for every record with a non-negative streak and every now,
\* mark_task_completed does not decrease total_completions, leaves current_streak
\* non-negative and leaves a reference date that is set and not after the date of
\* now, also when that date is earlier than the stored reference date.
C10_CompletionIsSafe ==
    (Completed /\ Before.current_streak >= 0) =>
        /\ After.total_completions >= Before.total_completions
        /\ After.current_streak >= 0
        /\ After.streak_last_updated_date # None
        /\ After.streak_last_updated_date <= Today

C10_Witness ==
    /\ Completed
    /\ Before.streak_last_updated_date > Today
    /\ Before.current_streak = 2
    /\ After.streak_last_updated_date = Today
    /\ After.current_streak = 1

\* C11: add_task of a name already in the store changes no record, writes nothing and
\* reports that the task exists; add_task of an absent name inserts a record with
\* streak 0, total 0, no completion time, no reference date and creation time now.
C11_AddTaskInsertsOnce ==
    [][call'.op = "add_task" =>
        IF call'.found
        THEN /\ tasks' = tasks
             /\ data_file' = data_file
             /\ ~wrote'
             /\ printed'.msg = "Exists"
        ELSE /\ DOMAIN tasks' = DOMAIN tasks \cup {call'.task}
             /\ tasks'[call'.task] =
                   [creation_timestamp |-> call'.now,
                    last_completed_timestamp |-> None,
                    current_streak |-> 0,
                    streak_last_updated_date |-> None,
                    total_completions |-> 0]]_vars

C11_Witness ==
    /\ call.op = "add_task"
    /\ call.found
    /\ call.task = "a"
    /\ ~wrote
    /\ printed.msg = "Exists"
    /\ DOMAIN tasks = Names
    /\ tasks["a"].total_completions = 1
    /\ tasks["b"].total_completions = 1

\* C12: mark_task_completed of a name that is not in the store returns after
\* reporting it: no record is created or changed and the file is not written.
C12_UnknownTaskIsNoOp ==
    [][(call'.op = "mark_task_completed" /\ ~call'.found) =>
        /\ tasks' = tasks
        /\ data_file' = data_file
        /\ ~wrote'
        /\ printed'.msg = "NotFound"]_vars

C12_Witness ==
    /\ call.op = "mark_task_completed"
    /\ ~call.found
    /\ call.task = "b"
    /\ printed.msg = "NotFound"
    /\ ~wrote
    /\ DOMAIN tasks = {"a"}
    /\ tasks["a"].total_completions = 1

\* C13: the creation time of a task is the now of the add_task that created it and
\* no later call changes it.
C13_CreationTimeIsFixed ==
    [][/\ \A task_name \in DOMAIN tasks :
             /\ task_name \in DOMAIN tasks'
             /\ tasks'[task_name].creation_timestamp
                    = tasks[task_name].creation_timestamp
       /\ (call'.op = "add_task" /\ ~call'.found) =>
             tasks'[call'.task].creation_timestamp = call'.now]_vars

C13_Witness ==
    /\ Completed
    /\ DOMAIN tasks = Names
    /\ After.total_completions = 2
    /\ After.creation_timestamp = Before.creation_timestamp
    /\ After.creation_timestamp # call.now
    /\ tasks["a"].creation_timestamp # tasks["b"].creation_timestamp

\* The names of a printed list, and the largest value of a counter over the store.
ListedNames(list) == {list[i] : i \in DOMAIN list}
Highest(counter(_)) ==
    CHOOSE v \in {counter(tasks[task_name]) : task_name \in DOMAIN tasks} :
        \A task_name \in DOMAIN tasks : counter(tasks[task_name]) <= v
StreakOf(data) == data.current_streak
TotalOf(data) == data.total_completions
Achieving(counter(_)) ==
    {task_name \in DOMAIN tasks : counter(tasks[task_name]) = Highest(counter)}

\* C14 as stated: for every store with a task, display_statistics gives the largest
\* current_streak with exactly the names that have it, and the largest
\* total_completions with exactly the names that have it.
C14_AsStated ==
    printed.msg = "Statistics" =>
        /\ printed.stats.highest_streak_value = Highest(StreakOf)
        /\ ListedNames(printed.stats.tasks_with_highest_streak) = Achieving(StreakOf)
        /\ printed.stats.max_completions_count = Highest(TotalOf)
        /\ ListedNames(printed.stats.tasks_with_max_completions) = Achieving(TotalOf)

\* C14: for every store with a task (counters not negative), display_statistics
\* computes the largest current_streak and the largest total_completions; a largest
\* value above 0 comes with exactly the names that have it, ties included, and a
\* largest value of 0 comes with no name.
C14_MaximaAndTheirTasks ==
    printed.msg = "Statistics" =>
        /\ printed.stats.highest_streak_value = Highest(StreakOf)
        /\ ListedNames(printed.stats.tasks_with_highest_streak) =
              IF Highest(StreakOf) > 0 THEN Achieving(StreakOf) ELSE {}
        /\ printed.stats.max_completions_count = Highest(TotalOf)
        /\ ListedNames(printed.stats.tasks_with_max_completions) =
              IF Highest(TotalOf) > 0 THEN Achieving(TotalOf) ELSE {}

C14_Witness ==
    /\ printed.msg = "Statistics"
    /\ DOMAIN tasks = Names
    /\ printed.stats.highest_streak_value = 1
    /\ ListedNames(printed.stats.tasks_with_highest_streak) = Names
    /\ ListedNames(printed.stats.tasks_with_max_completions) = Names

\* C15: list_tasks and display_statistics leave tasks.json as it is, whatever it
\* holds: no record, no field and no name changes, and the file is not written.
C15_ListingIsReadOnly ==
    [][call'.op \in {"list_tasks", "display_statistics"} =>
        /\ data_file' = data_file
        /\ tasks' = tasks
        /\ ~wrote']_vars

C15_Witness ==
    /\ call.op = "list_tasks"
    /\ printed.msg = "Tasks"
    /\ ~wrote
    /\ data_file.kind = "json"
    /\ data_file.tasks["a"].creation_timestamp = JString("junk", 0)
    /\ data_file.tasks["a"].streak_last_updated_date = JNumber(1)
    /\ data_file.tasks["a"].current_streak = JNaN
    /\ data_file.tasks["a"].total_completions = JAbsent

\* What a raw field is to be loaded as: a text that parses gives its value, a number
\* gives the counter, anything else (missing, null, wrong type, unparsable text, a
\* number that is not finite) gives the default.
ExpectedTime(x) ==
    IF x.j = "string" /\ x.fmt = "datetime" THEN x.v
    ELSE IF x.j = "string" /\ x.fmt = "date" THEN x.v * TicksPerDay
    ELSE None
ExpectedDate(x) == IF x.j = "string" /\ x.fmt = "date" THEN x.v ELSE None
ExpectedCounter(x) == IF x.j = "number" THEN x.v ELSE 0
ExpectedRecord(data) ==
    [creation_timestamp |-> ExpectedTime(data.creation_timestamp),
     last_completed_timestamp |-> ExpectedTime(data.last_completed_timestamp),
     streak_last_updated_date |-> ExpectedDate(data.streak_last_updated_date),
     current_streak |-> ExpectedCounter(data.current_streak),
     total_completions |-> ExpectedCounter(data.total_completions)]

\* C16 as stated: whatever the fields of the stored records hold, load_tasks ends
\* without an exception and returns every task, each bad or missing field as its
\* default (None, 0) and each well-formed field as stored.
C16_AsStated ==
    data_file.kind = "json" =>
        /\ ~load_aborts(data_file)
        /\ printed.msg # "Traceback"
        /\ DOMAIN tasks = DOMAIN data_file.tasks
        /\ \A task_name \in DOMAIN data_file.tasks :
              tasks[task_name] = ExpectedRecord(data_file.tasks[task_name])

\* C17 as stated: with tasks.json missing, empty, or not to be decoded or read,
\* load_tasks returns no tasks and every handler runs to its end.
C17_AsStated ==
    data_file.kind \in {"missing", "empty", "garbled", "undecodable", "unreadable"} =>
        /\ ~load_aborts(data_file)
        /\ tasks = <<>>
        /\ printed.msg # "Traceback"

\* C18: for every mapping m of well-typed records (datetimes and the date set or
\* None, counters not negative), load_tasks after save_tasks(m) returns m, every field
\* of every task as it was.
C18_SaveLoadRoundTrip ==
    /\ call.op = "save_tasks" => load_tasks(data_file) = call.tasks
    /\ call.op = "load_tasks" => printed.tasks = call.tasks

C18_Witness ==
    /\ call.op = "load_tasks"
    /\ DOMAIN printed.tasks = Names
    /\ printed.tasks["a"].creation_timestamp = TicksPerDay + TicksPerDay - 1
    /\ printed.tasks["a"].last_completed_timestamp = None
    /\ printed.tasks["a"].streak_last_updated_date = 1
    /\ printed.tasks["a"].current_streak = 2
    /\ printed.tasks["a"].total_completions = 3

\* C19 as stated, for a dt that is not after now: time_since(None) is "Nunca", it is
\* "Justo ahora" when no day, hour, minute or second lies between dt and now, and
\* otherwise a text that begins with "hace".
C19_AsStated ==
    (call.op = "time_since" /\ (call.dt_object = None \/ call.dt_object <= call.now)) =>
        printed.text.text =
            IF call.dt_object = None THEN "Nunca"
            ELSE IF call.now = call.dt_object THEN "Justo ahora"
            ELSE "hace"

\* C20: a completion on a day before the reference date (the clock went back)
\* restarts the streak at 1, moves the reference date back to that day and is
\* reported as Restarted; total_completions still goes up by one.
C20_BackwardsClockRestarts ==
    (Completed /\ Before.streak_last_updated_date # None
               /\ Today < Before.streak_last_updated_date) =>
        /\ After.current_streak = 1
        /\ After.streak_last_updated_date = Today
        /\ printed.msg = "Restarted"
        /\ After.total_completions = Before.total_completions + 1

C20_Witness ==
    /\ Completed
    /\ GRACE_DAYS = 1
    /\ Before.streak_last_updated_date = Today + 1
    /\ Before.current_streak = 3
    /\ Before.total_completions = 2
    /\ After.current_streak = 1
    /\ After.streak_last_updated_date = Today
    /\ After.total_completions = 3
    /\ printed.msg = "Restarted"

\* C21: in every state reached from the empty store by add_task and
\* mark_task_completed, at any timestamps in any order, every record has
\* 0 <= current_streak <= total_completions, and current_streak >= 1 once the task
\* has been completed.
C21_StreakWithinTotal ==
    \A task_name \in DOMAIN tasks :
        /\ 0 <= tasks[task_name].current_streak
        /\ tasks[task_name].current_streak <= tasks[task_name].total_completions
        /\ (events[task_name].n >= 1 \/ tasks[task_name].total_completions >= 1) =>
              tasks[task_name].current_streak >= 1

C21_Witness ==
    /\ Completed
    /\ printed.msg = "Restarted"
    /\ events[Tracked].n = MaxCompletions
    /\ Before.current_streak = 2
    /\ After.current_streak = 1
    /\ After.total_completions = 3

\* C22: add_task and mark_task_completed change the record of the task they name
\* and no other: every other task is in the store after the call exactly when it was
\* before, with its five fields as they were; and no call of any handler removes a
\* task.
C22_OnlyTheNamedTaskChanges ==
    [][/\ DOMAIN tasks \subseteq DOMAIN tasks'
       /\ call'.op \in {"add_task", "mark_task_completed"} =>
             /\ DOMAIN tasks' \subseteq DOMAIN tasks \cup {call'.task}
             /\ \A task_name \in DOMAIN tasks \ {call'.task} :
                   tasks'[task_name] = tasks[task_name]]_vars

C22_Witness ==
    /\ Completed
    /\ call.task = "b"
    /\ DOMAIN tasks = Names
    /\ printed.msg = "Started"
    /\ After.total_completions = 1
    /\ events["a"].n = 1
    /\ tasks["a"].current_streak = 1
    /\ tasks["a"].last_completed_timestamp # call.now

====
